---- MODULE Spec2Model ----
(***************************************************************************)
(* Harmonic trading bot: the position registry (PositionManager), the      *)
(* analysis tasks that open positions (HarmonicTradingBot) and the venue   *)
(* they talk to (ExchangeConnector).                                       *)
(*                                                                         *)
(* Prices are integers in units of 1/1000 of the quote currency, sizes in  *)
(* units of 1/3 lot, times in seconds.                                     *)
(*                                                                         *)
(* The venue connector is synchronous and the only awaits that suspend are *)
(* the TelegramNotifier.notify_* calls, which never raise.  What a handler *)
(* does to one position (or one pattern) between its first read and its    *)
(* last write touches nothing another coroutine writes, so the handlers    *)
(* are cut per position and per pattern, each piece one atomic step.  A    *)
(* forced close, which the program runs at shutdown only, is one step.     *)
(***************************************************************************)
EXTENDS Integers, Sequences, FiniteSets, TLC

---------------------------------------------------------------------------
(* Bounds of the model *)

\* position records ever created
MaxObjs == 3
\* seconds the clock advances one by one, where positions are opened
MaxTicks == 1
\* seconds the clock advances one by one on each side of the retention period
MaxAgeTicks == 2
\* pattern structures present in the analysed window
MaxPatterns == 3
\* Config.MAX_POSITIONS, read from the environment (3 when unset): the
\* capacity the bot is configured with
MAX_POSITIONS == 2
\* the pivots of a series handed to the detector
MaxPivots == 5

---------------------------------------------------------------------------
(* Program constants *)

\* timedelta(days=1), in seconds
TicksPerDay == 86400
\* cleanup_old_positions(days=7)
RetentionDays == 7
\* _cleanup_old_patterns(max_age_hours=48)
PatternMaxAgeHours == 48
\* targets[:3]
MaxTakeProfits == 3
\* get_historical_data(symbol, Config.TIMEFRAME_MAIN, 200): the bars analysed
AnalysisBars == 200
\* TIMEFRAME_MAIN = '1h': the seconds of a bar
BarSeconds == 3600
\* buffer = d_point['price'] * 0.0005, as a fraction of 10000
StopBufferPer10000 == 5

\* Python's None, apart from every id, price and time
None == -1

---------------------------------------------------------------------------
(* Sequences *)

Range(s) == {s[i] : i \in 1..Len(s)}

RECURSIVE Insert(_, _)
Insert(x, s) ==
  IF s = <<>> THEN <<x>>
  ELSE IF x <= Head(s) THEN <<x>> \o s
  ELSE <<Head(s)>> \o Insert(x, Tail(s))

\* list.sort(): ascending
RECURSIVE SortAsc(_)
SortAsc(s) == IF s = <<>> THEN <<>> ELSE Insert(Head(s), SortAsc(Tail(s)))

Reverse(s) == [i \in 1..Len(s) |-> s[Len(s) + 1 - i]]

\* list.sort(reverse=True): descending
SortDesc(s) == Reverse(SortAsc(s))

\* s[:n]
Take(s, n) == SubSeq(s, 1, IF Len(s) < n THEN Len(s) ELSE n)

Abs(x) == IF x < 0 THEN -x ELSE x
Max(a, b) == IF a >= b THEN a ELSE b
Min(a, b) == IF a <= b THEN a ELSE b

---------------------------------------------------------------------------
(* Patterns and zones *)

PatternKeys == 1..MaxPatterns

\* The structures the detector can return: key = completion_time (D's
\* timestamp); a bearish structure ends on a high pivot D above C, a
\* bullish one on a low pivot D below C.
Pattern(k) ==
  IF k % 2 = 1
  THEN [type |-> "butterfly", completion_time |-> k, direction |-> "bearish",
        D |-> 100000, C |-> 90000]
  ELSE [type |-> "butterfly", completion_time |-> k, direction |-> "bullish",
        D |-> 80000, C |-> 90000]

\* FibLevel taking every level below D: C21_ZonesFromDC fails
FibLevelBelow(pattern, permille) ==
  pattern.D - (Abs(pattern.D - pattern.C) * permille) \div 1000

\* price_level = D -/+ dc_distance * level, level given in 1/1000
FibLevel(pattern, permille) ==
  LET dc_distance == Abs(pattern.D - pattern.C)
  IN IF pattern.direction = "bearish"
     THEN pattern.D - (dc_distance * permille) \div 1000
     ELSE pattern.D + (dc_distance * permille) \div 1000

create_fibonacci_zones(pattern) ==
  LET f886 == FibLevel(pattern, 886)
  IN [direction |-> pattern.direction,
      base_price |-> pattern.D,
      target_price |-> pattern.C,
      fib_236 |-> FibLevel(pattern, 236),
      fib_382 |-> FibLevel(pattern, 382),
      fib_500 |-> FibLevel(pattern, 500),
      fib_618 |-> FibLevel(pattern, 618),
      fib_786 |-> FibLevel(pattern, 786),
      fib_886 |-> f886,
      fib_1000 |-> FibLevel(pattern, 1000),
      entry_zone |-> [upper |-> Max(pattern.D, f886), lower |-> Min(pattern.D, f886)],
      rebound_zone |-> [upper |-> Max(f886, pattern.C), lower |-> Min(f886, pattern.C)]]

---------------------------------------------------------------------------
(* Entry levels *)

\* calculate_stop_loss with the buffer on the other side of D:
\* C26_StopLossAdverse fails
calculate_stop_loss_swapped(pattern) ==
  LET buffer == (pattern.D * StopBufferPer10000) \div 10000
  IN IF pattern.direction = "bearish" THEN pattern.D - buffer ELSE pattern.D + buffer

\* PositionManager._calculate_stop_loss: D's price plus or minus 0.05 % of it
calculate_stop_loss(pattern) ==
  LET buffer == (pattern.D * StopBufferPer10000) \div 10000
  IN IF pattern.direction = "bearish" THEN pattern.D + buffer ELSE pattern.D - buffer

calculate_take_profits(pattern, zones) ==
  LET targets == <<zones.fib_618, zones.fib_500, zones.fib_382, pattern.C>>
      sorted == IF pattern.direction = "bearish" THEN SortAsc(targets) ELSE SortDesc(targets)
  IN Take(sorted, MaxTakeProfits)

---------------------------------------------------------------------------
(* Confirmation of an entry.  The fine-timeframe series is given by its    *)
(* length and the close of its last candle; the trendline gate, which is   *)
(* decided by a least-squares fit over the coarse series, is an input.     *)

check_5m_candle_confirmation(n5m, close, zones) ==
  IF n5m < 2 THEN FALSE
  ELSE IF zones.fib_886 = 0 THEN FALSE   \* `if not fib_886`
  ELSE IF zones.direction = "bearish" THEN close < zones.fib_886
  ELSE close > zones.fib_886

\* check_zone_break_confirmation against the other end of the entry zone:
\* C29_GatesAgree fails
check_zone_break_confirmation_far_end(n5m, close, zones) ==
  IF n5m < 1 THEN FALSE
  ELSE IF zones.direction = "bearish" THEN close < zones.entry_zone.upper
  ELSE close > zones.entry_zone.lower

check_zone_break_confirmation(n5m, close, zones) ==
  IF n5m < 1 THEN FALSE
  ELSE IF zones.direction = "bearish" THEN close < zones.entry_zone.lower
  ELSE close > zones.entry_zone.upper

\* BoolToInt that counts a gate whether it passed or not:
\* C14_SignalIffAllGates fails
BoolToIntAlways(b) == 1

\* `if ...: confirmations['total_score'] += 1`
BoolToInt(b) == IF b THEN 1 ELSE 0

\* entry_direction with the sides exchanged: C15_SignalDirectionPrice fails
entry_direction_swapped(pattern) == IF pattern.direction = "bearish" THEN "BUY" ELSE "SELL"

\* 'SELL' if pattern['direction'] == 'bearish' else 'BUY'
entry_direction(pattern) == IF pattern.direction = "bearish" THEN "SELL" ELSE "BUY"

check_entry_confirmations(pattern, zones, n5m, close, trendline_break) ==
  LET candle == check_5m_candle_confirmation(n5m, close, zones)
      zbreak == check_zone_break_confirmation(n5m, close, zones)
      total_score == BoolToInt(candle) + BoolToInt(trendline_break) + BoolToInt(zbreak)
      entry_signal == total_score >= 3
  IN [candle_5m_confirmation |-> candle,
      trendline_break |-> trendline_break,
      zone_break |-> zbreak,
      total_score |-> total_score,
      entry_signal |-> entry_signal,
      entry_direction |-> IF entry_signal THEN entry_direction(pattern) ELSE "NONE",
      entry_price |-> IF candle \/ entry_signal THEN close ELSE None]

---------------------------------------------------------------------------
(* HarmonicPatternDetector.  A ratio is the pair of the two leg lengths it   *)
(* divides, compared exactly; a ratio the detector leaves out of the dict    *)
(* has den = 0.  Template values are in 1/1000, confidence scores in 1/1000  *)
(* of a point, the mean of the scores rounded down to that unit.             *)

NoRatio == [num |-> 0, den |-> 0]

\* `'AB_XA' in ratios`
Present(r) == r.den # 0

\* _calculate_ratios
calculate_ratios(x, a, b, c, d) ==
  LET xa == Abs(a.price - x.price)
      ab == Abs(b.price - a.price)
      bc == Abs(c.price - b.price)
      cd == Abs(d.price - c.price)
      ad == Abs(d.price - a.price)
  IN [AB_XA |-> IF xa # 0 THEN [num |-> ab, den |-> xa] ELSE NoRatio,
      AD_XA |-> IF xa # 0 THEN [num |-> ad, den |-> xa] ELSE NoRatio,
      BC_AB |-> IF ab # 0 THEN [num |-> bc, den |-> ab] ELSE NoRatio,
      CD_BC |-> IF bc # 0 THEN [num |-> cd, den |-> bc] ELSE NoRatio]

\* self.tolerance = 0.05
Tolerance == 50

\* abs(actual - expected), in 1/(1000 * den)
Distance(actual, expected) == Abs(actual.num * 1000 - expected * actual.den)

\* _is_ratio_valid: abs(actual - expected) <= tolerance
is_ratio_valid(actual, expected, tolerance) ==
  Distance(actual, expected) <= tolerance * actual.den

\* lo - self.tolerance <= ratio <= hi + self.tolerance
InBand(r, lo, hi) ==
  /\ (lo - Tolerance) * r.den <= r.num * 1000
  /\ r.num * 1000 <= (hi + Tolerance) * r.den

\* the `checks` list of _is_butterfly_pattern: one entry per ratio present
RatioChecks(ratios) ==
  (IF Present(ratios.AB_XA) THEN <<is_ratio_valid(ratios.AB_XA, 786, Tolerance)>> ELSE <<>>)
  \o (IF Present(ratios.BC_AB) THEN <<InBand(ratios.BC_AB, 382, 886)>> ELSE <<>>)
  \o (IF Present(ratios.CD_BC) THEN <<InBand(ratios.CD_BC, 1618, 2618)>> ELSE <<>>)
  \o (IF Present(ratios.AD_XA) THEN <<InBand(ratios.AD_XA, 1270, 1618)>> ELSE <<>>)

\* sum(checks)
CountTrue(checks) == Cardinality({i \in 1..Len(checks) : checks[i]})

\* is_butterfly_pattern satisfied with two checks: C17_ThreeOfFour fails
is_butterfly_pattern_two(ratios) == CountTrue(RatioChecks(ratios)) >= 2

\* _is_butterfly_pattern
is_butterfly_pattern(ratios) == CountTrue(RatioChecks(ratios)) >= 3

\* ratio_score without the floor at 0: C19_ConfidenceInRange fails
ratio_score_unclamped(r, target, weight) ==
  100000 - (Distance(r, target) * weight) \div r.den

\* max(0, 100 - abs(ratio - target) * weight)
ratio_score(r, target, weight) ==
  Max(0, 100000 - (Distance(r, target) * weight) \div r.den)

\* the fib level nearest to bc_ab: min(abs(bc_ab - level) for level in fib_levels)
RECURSIVE NearestLevel(_, _)
NearestLevel(r, levels) ==
  IF Len(levels) = 1 THEN levels[1]
  ELSE LET rest == NearestLevel(r, Tail(levels))
       IN IF Distance(r, levels[1]) <= Distance(r, rest) THEN levels[1] ELSE rest

\* cd_bc_target taking 2.618 from 2.0 on: C20_CentersAccepted fails
cd_bc_target_from_two(r) == IF r.num * 1000 >= 2000 * r.den THEN 2618 ELSE 1618

\* target = 2.618 if cd_bc > 2.0 else 1.618
cd_bc_target(r) == IF r.num * 1000 > 2000 * r.den THEN 2618 ELSE 1618

\* target = 1.618 if ad_xa > 1.4 else 1.27
ad_xa_target(r) == IF r.num * 1000 > 1400 * r.den THEN 1618 ELSE 1270

\* the `confidence_scores` list of _calculate_confidence
ConfidenceScores(ratios) ==
  (IF Present(ratios.AB_XA) THEN <<ratio_score(ratios.AB_XA, 786, 100)>> ELSE <<>>)
  \o (IF Present(ratios.BC_AB)
      THEN <<ratio_score(ratios.BC_AB,
                         NearestLevel(ratios.BC_AB, <<382, 500, 618, 786, 886>>), 100)>>
      ELSE <<>>)
  \o (IF Present(ratios.CD_BC)
      THEN <<ratio_score(ratios.CD_BC, cd_bc_target(ratios.CD_BC), 50)>> ELSE <<>>)
  \o (IF Present(ratios.AD_XA)
      THEN <<ratio_score(ratios.AD_XA, ad_xa_target(ratios.AD_XA), 100)>> ELSE <<>>)

RECURSIVE SeqSum(_)
SeqSum(s) == IF s = <<>> THEN 0 ELSE Head(s) + SeqSum(Tail(s))

\* _calculate_confidence: np.mean(confidence_scores) if confidence_scores else 0
calculate_confidence(ratios) ==
  LET scores == ConfidenceScores(ratios)
  IN IF scores = <<>> THEN 0 ELSE SeqSum(scores) \div Len(scores)

\* is_valid_sequence that takes any sequence: C16_AlternatingKinds fails
is_valid_sequence_any(points) == TRUE

\* _is_valid_sequence
is_valid_sequence(points) ==
  LET types == [i \in 1..Len(points) |-> points[i].type]
  IN \/ types = <<"low", "high", "low", "high", "low">>
     \/ types = <<"high", "low", "high", "low", "high">>

\* pivots[i:i+5]
Window(pivots, i) == [j \in 1..5 |-> pivots[i + j - 1]]

\* _find_butterfly_patterns from window i on
RECURSIVE butterfly_patterns_from(_, _)
butterfly_patterns_from(pivots, i) ==
  IF i > Len(pivots) - 4 THEN <<>>
  ELSE LET w == Window(pivots, i)
           ratios == calculate_ratios(w[1], w[2], w[3], w[4], w[5])
       IN (IF is_valid_sequence(w) /\ is_butterfly_pattern(ratios)
           THEN <<[type |-> "butterfly",
                   points |-> w,
                   ratios |-> ratios,
                   confidence |-> calculate_confidence(ratios),
                   direction |-> IF w[5].type = "high" THEN "bearish" ELSE "bullish",
                   completion_time |-> w[5].timestamp]>>
           ELSE <<>>) \o butterfly_patterns_from(pivots, i + 1)

find_butterfly_patterns(pivots) == butterfly_patterns_from(pivots, 1)

---------------------------------------------------------------------------
(* State *)

VARIABLES
  now,               \* datetime.now(), in ticks
  heap,              \* the position dicts, by object identity
  active_positions,  \* PositionManager.active_positions: insertion-ordered key -> object
  next_obj,          \* next object identity
  open_orders,       \* ids of the orders open at the venue
  detected_patterns, \* HarmonicTradingBot.detected_patterns: key -> record
  task,              \* the analyze_market coroutine: the patterns still to process
  mon,               \* the monitor_positions pass: the positions still to check
  last               \* what the latest step did at the venue and the notifier

vars == <<now, heap, active_positions, next_obj, open_orders,
          detected_patterns, task, mon, last>>

EmptyMap == [x \in {} |-> 0]

\* op, obj, ok: the operation, the position object, its outcome (for a monitor
\* step: whether the open-orders query succeeded); was: the status the
\* position had; orders: the orders submitted; cancels: the ids a cancel was
\* issued for; tp_exits: the take-profit legs reported filled; exit: the
\* closing exit reported; removed: the registry keys deleted
NoExit == [reason |-> "NONE", price |-> 0, size |-> 0, pnl |-> 0]

\* calc: a function applied on its own: its name, its arguments, its result
NoCalc == [fn |-> "none"]

NoLast ==
  [op |-> "none", obj |-> 0, ok |-> TRUE, was |-> "NONE", orders |-> <<>>, cancels |-> {},
   tp_exits |-> {}, exit |-> NoExit, removed |-> {}, calc |-> NoCalc]

IdleTask == [pc |-> "idle", rem |-> <<>>, fine |-> 0]
\* faulted: the positions of the pass whose check raised
IdleMon == [pc |-> "idle", snap |-> <<>>, faulted |-> {}]

\* the bot as constructed
Constructed ==
  /\ now = 0
  /\ heap = EmptyMap
  /\ active_positions = <<>>
  /\ next_obj = 1
  /\ open_orders = {}
  /\ detected_patterns = EmptyMap
  /\ task = IdleTask
  /\ mon = IdleMon

Init ==
  /\ Constructed
  /\ last = NoLast

---------------------------------------------------------------------------
(* The registry as a Python dict *)

Keys(reg) == {reg[i].key : i \in 1..Len(reg)}
Objs(reg) == {reg[i].obj : i \in 1..Len(reg)}

\* reg[key] = obj: an existing key keeps its place and loses its old object
DictSet(reg, key, obj) ==
  IF key \in Keys(reg)
  THEN [i \in 1..Len(reg) |-> IF reg[i].key = key THEN [key |-> key, obj |-> obj] ELSE reg[i]]
  ELSE Append(reg, [key |-> key, obj |-> obj])

\* del reg[key] for every key in ks
RECURSIVE DictDel(_, _)
DictDel(reg, ks) ==
  IF reg = <<>> THEN <<>>
  ELSE IF Head(reg).key \in ks THEN DictDel(Tail(reg), ks)
  ELSE <<Head(reg)>> \o DictDel(Tail(reg), ks)

\* the objects some reference still reaches: the registry and the snapshot a
\* monitor pass iterates
Live(reg, m) == Objs(reg) \cup Range(m.snap)

Collect(h, reg, m) == [o \in (DOMAIN h) \cap Live(reg, m) |-> h[o]]

get_active_positions_count(h, reg) ==
  Cardinality({i \in 1..Len(reg) : h[reg[i].obj].status = "ACTIVE"})

---------------------------------------------------------------------------
(* Venue orders *)

\* the id the venue gives the order placed for slot `slot` of position object
\* `obj`: 1 the entry, 2 the stop, 3.. the take-profit legs; never falsy
OrderId(obj, slot) == obj * 8 + slot

OppositeSide(direction) == IF direction = "BUY" THEN "sell" ELSE "buy"
SameSide(direction) == IF direction = "BUY" THEN "buy" ELSE "sell"

Order(kind, side, size, price) == [kind |-> kind, side |-> side, size |-> size, price |-> price]

\* position_id = f"{pattern['type']}_{datetime.now().strftime('%Y%m%d_%H%M%S')}"
PositionId(type, t) == [type |-> type, stamp |-> t]

\* _place_take_profits: one limit order per level, the legs the venue accepted
\* (tp_ok: the levels whose order is accepted) are appended in level order
RECURSIVE tp_orders_from(_, _, _, _, _)
tp_orders_from(obj, take_profits, tp_size, tp_ok, i) ==
  IF i > Len(take_profits) THEN <<>>
  ELSE (IF i \in tp_ok
        THEN <<[order_id |-> OrderId(obj, 2 + i), price |-> take_profits[i],
                size |-> tp_size, level |-> i, executed |-> FALSE]>>
        ELSE <<>>) \o tp_orders_from(obj, take_profits, tp_size, tp_ok, i + 1)

place_take_profits(obj, position_size, take_profits, tp_ok) ==
  IF Len(take_profits) = 0 THEN <<>>
  ELSE tp_orders_from(obj, take_profits, position_size \div Len(take_profits), tp_ok, 1)

\* what execute_entry_signal hands back: whether it succeeded, the heap, the
\* registry and the venue's open orders afterwards, the object registered,
\* the orders submitted
EntryFailed(h, reg, oo, orders) ==
  [ok |-> FALSE, heap |-> h, reg |-> reg, open |-> oo, obj |-> 0, orders |-> orders]

\* execute_entry_signal once the market order is filled: the position dict,
\* the bracket orders, the registration
open_position(h, reg, oo, obj, t, pattern, zones, conf, size, stop_ok, tp_ok) ==
  LET stop_loss == calculate_stop_loss(pattern)
      take_profits == calculate_take_profits(pattern, zones)
      direction == conf.entry_direction
      exit_side == OppositeSide(direction)
      tps == place_take_profits(obj, size, take_profits, tp_ok)
      position_id == PositionId(pattern.type, t)
      position ==
        [id |-> position_id, direction |-> direction, entry_price |-> conf.entry_price,
         position_size |-> size, stop_loss |-> stop_loss, take_profits |-> take_profits,
         pattern |-> pattern.completion_time,
         status |-> "ACTIVE", close_reason |-> "NONE", close_time |-> None,
         entry_order_id |-> OrderId(obj, 1),
         stop_order_id |-> IF stop_ok THEN OrderId(obj, 2) ELSE None,
         tp_orders |-> tps]
  IN [ok |-> TRUE,
      heap |-> [o \in DOMAIN h \cup {obj} |-> IF o = obj THEN position ELSE h[o]],
      reg |-> DictSet(reg, position_id, obj),
      open |-> oo \cup (IF stop_ok THEN {OrderId(obj, 2)} ELSE {})
                  \cup {tps[i].order_id : i \in 1..Len(tps)},
      obj |-> obj,
      orders |-> <<Order("market", SameSide(direction), size, 0),
                   Order("stop", exit_side, size, stop_loss)>>
                 \o [i \in 1..Len(take_profits) |->
                       Order("limit", exit_side, size \div Len(take_profits),
                             take_profits[i])]]

\* execute_entry_signal without the size and market-order checks:
\* C5_FailedEntryPersistsNothing fails
execute_entry_signal_unchecked(h, reg, oo, obj, t, pattern, zones, conf, size, market_ok, stop_ok, tp_ok) ==
  IF ~conf.entry_signal THEN EntryFailed(h, reg, oo, <<>>)
  ELSE open_position(h, reg, oo, obj, t, pattern, zones, conf, size, stop_ok, tp_ok)

\* PositionManager.execute_entry_signal, up to its first suspension.
\* Inputs: the confirmation, the size the venue computes, and whether the
\* venue accepts the market order, the stop order and each limit order.
execute_entry_signal(h, reg, oo, obj, t, pattern, zones, conf, size, market_ok, stop_ok, tp_ok) ==
  IF ~conf.entry_signal THEN EntryFailed(h, reg, oo, <<>>)
  ELSE IF size <= 0 THEN EntryFailed(h, reg, oo, <<>>)
  ELSE IF ~market_ok
  THEN EntryFailed(h, reg, oo, <<Order("market", SameSide(conf.entry_direction), size, 0)>>)
  ELSE open_position(h, reg, oo, obj, t, pattern, zones, conf, size, stop_ok, tp_ok)

---------------------------------------------------------------------------
(* Inputs *)

\* what calculate_position_size can return: nothing, or one lot
Sizes == {0, 3}
\* the fine-timeframe series analyze_market fetches: its length and the
\* close of its last candle (an empty series ends the cycle at once)
FineSeries == <<[len |-> 2, close |-> 85000], [len |-> 2, close |-> 90000]>>
\* get_current_price
Prices == {85000, 90000}

\* the patterns of one detection, in pivot order
RECURSIVE KeysInOrder(_, _)
KeysInOrder(ks, k) ==
  IF k > MaxPatterns THEN <<>>
  ELSE (IF k \in ks THEN <<k>> ELSE <<>>) \o KeysInOrder(ks, k + 1)

---------------------------------------------------------------------------
(* The clock *)

\* The clock advances by a tick, at most `ticks` times in a row, or by a
\* whole retention period, once.
RetentionTicks == RetentionDays * TicksPerDay

Tick(d, ticks) ==
  /\ d \in {1, RetentionTicks}
  /\ d = 1 => now % RetentionTicks < ticks
  /\ d = RetentionTicks => now < RetentionTicks
  /\ now' = now + d
  /\ last' = NoLast
  /\ UNCHANGED <<heap, active_positions, next_obj, open_orders,
                 detected_patterns, task, mon>>

---------------------------------------------------------------------------
(* HarmonicTradingBot.analyze_market, _process_pattern, _handle_entry_signal. *)
(* A cycle is cut between patterns: every pattern that is processed awaits a  *)
(* notification, and the steps in between touch neither the registry nor the  *)
(* cache.                                                                     *)

AnalyzeStart(ks, fine) ==
  /\ task.pc = "idle"
  /\ task' = [pc |-> "run", rem |-> KeysInOrder(ks, 1), fine |-> fine]
  /\ last' = NoLast
  /\ UNCHANGED <<now, heap, active_positions, next_obj, open_orders,
                 detected_patterns, mon>>

\* AtCapacity with > for >=: one position too many gets in, C1_Capacity fails
AtCapacityStrict(h, reg) == get_active_positions_count(h, reg) > MAX_POSITIONS

\* `if active_positions >= Config.MAX_POSITIONS: return`
AtCapacity(h, reg) == get_active_positions_count(h, reg) >= MAX_POSITIONS

\* in_detected_patterns that finds nothing: C13_NoReprocessing fails
in_detected_patterns_never(det, k) == FALSE

\* `pattern_id in self.detected_patterns`, pattern_id being the type and the
\* completion time of the pattern
in_detected_patterns(det, k) == k \in DOMAIN det

\* _process_pattern for a pattern already in the cache: `return`
SkipPattern ==
  /\ task.pc = "run"
  /\ task.rem # <<>>
  /\ in_detected_patterns(detected_patterns, Head(task.rem))
  /\ task' = [task EXCEPT !.rem = Tail(task.rem)]
  /\ last' = [NoLast EXCEPT !.op = "skip"]
  /\ UNCHANGED <<now, heap, active_positions, next_obj, open_orders,
                 detected_patterns, mon>>

\* what a call of execute_entry_signal with result r does to the state.
\* cap bounds the position records of the model.
EntryEffect(cap, r) ==
  /\ r.ok => next_obj <= cap
  /\ heap' = Collect(r.heap, r.reg, mon)
  /\ active_positions' = r.reg
  /\ open_orders' = r.open
  /\ next_obj' = IF r.ok THEN next_obj + 1 ELSE next_obj
  /\ last' = [NoLast EXCEPT !.op = "entry", !.ok = r.ok, !.obj = r.obj, !.orders = r.orders]

\* _process_pattern for a new pattern: zones, confirmations, the cache entry,
\* then _handle_entry_signal.
ProcessPattern(cap, trendline_break, size, market_ok, stop_ok, tp_ok) ==
  /\ task.pc = "run"
  /\ task.rem # <<>>
  /\ ~in_detected_patterns(detected_patterns, Head(task.rem))
  /\ LET k == Head(task.rem)
         pattern == Pattern(k)
         zones == create_fibonacci_zones(pattern)
         conf == check_entry_confirmations(pattern, zones, FineSeries[task.fine].len,
                                           FineSeries[task.fine].close, trendline_break)
     IN /\ detected_patterns' =
             [x \in DOMAIN detected_patterns \cup {k} |->
                IF x = k THEN [detection_time |-> now] ELSE detected_patterns[x]]
        /\ IF ~conf.entry_signal
           THEN /\ last' = [NoLast EXCEPT !.op = "no_signal"]
                /\ UNCHANGED <<heap, active_positions, next_obj, open_orders>>
           ELSE IF AtCapacity(heap, active_positions)
           THEN /\ last' = [NoLast EXCEPT !.op = "entry_rejected", !.ok = FALSE]
                /\ UNCHANGED <<heap, active_positions, next_obj, open_orders>>
           ELSE EntryEffect(cap, execute_entry_signal(heap, active_positions, open_orders,
                                                      next_obj, now, pattern, zones, conf,
                                                      size, market_ok, stop_ok, tp_ok))
  /\ task' = [task EXCEPT !.rem = Tail(task.rem)]
  /\ UNCHANGED <<now, mon>>

\* PositionManager.execute_entry_signal called on its own, for pattern k with
\* the confirmations of series `fine`
ExecuteEntry(cap, k, fine, trendline_break, size, market_ok, stop_ok, tp_ok) ==
  /\ LET pattern == Pattern(k)
         zones == create_fibonacci_zones(pattern)
         conf == check_entry_confirmations(pattern, zones, FineSeries[fine].len,
                                           FineSeries[fine].close, trendline_break)
     IN EntryEffect(cap, execute_entry_signal(heap, active_positions, open_orders, next_obj,
                                              now, pattern, zones, conf, size, market_ok,
                                              stop_ok, tp_ok))
  /\ UNCHANGED <<now, detected_patterns, task, mon>>

AnalyzeDone ==
  /\ task.pc = "run"
  /\ task.rem = <<>>
  /\ task' = IdleTask
  /\ last' = NoLast
  /\ UNCHANGED <<now, heap, active_positions, next_obj, open_orders,
                 detected_patterns, mon>>

---------------------------------------------------------------------------
(* PositionManager.monitor_positions.  A pass is cut between positions: what *)
(* _check_position_status reads of a position is fixed once the open orders  *)
(* are fetched, and nothing else writes the fields it writes.                *)

PnL(direction, entry_price, exit_price, size) ==
  IF direction = "BUY" THEN (exit_price - entry_price) * size
  ELSE (entry_price - exit_price) * size

\* ExchangeConnector.get_open_orders: the open ids, [] when the query fails
get_open_orders(oo, q_ok) == IF q_ok THEN oo ELSE {}

\* the legs with `tp_order['order_id'] not in open_order_ids`
Hits(p, open_ids) == {i \in 1..Len(p.tp_orders) : p.tp_orders[i].order_id \notin open_ids}

\* StopHit without the test that a stop order was recorded:
\* C12_MissingLegIgnored fails
StopHitUnguarded(p, open_ids) == p.stop_order_id \notin open_ids

\* position['stop_order_id'] and position['stop_order_id'] not in open_order_ids
StopHit(p, open_ids) == p.stop_order_id # None /\ p.stop_order_id \notin open_ids

\* _handle_take_profit_hit on the legs hit: tp_order['executed'] = True
MarkExecuted(p, hits) ==
  [p EXCEPT !.tp_orders = [i \in 1..Len(p.tp_orders) |->
      IF i \in hits THEN [p.tp_orders[i] EXCEPT !.executed = TRUE] ELSE p.tp_orders[i]]]

\* MarkClosed without the close reason: C8_ClosedWhenFilled fails
MarkClosedNoReason(p, reason, t) == [p EXCEPT !.status = "CLOSED", !.close_time = t]

\* the three assignments that close a position
MarkClosed(p, reason, t) ==
  [p EXCEPT !.status = "CLOSED", !.close_reason = reason, !.close_time = t]

\* CancelIds without the take-profit legs: C4_StopLossCloses fails
CancelStopOnly(p) == IF p.stop_order_id # None THEN {p.stop_order_id} ELSE {}

\* _cancel_remaining_orders: the ids a cancel is issued for
CancelIds(p) ==
  {p.tp_orders[i].order_id : i \in {j \in 1..Len(p.tp_orders) : ~p.tp_orders[j].executed}}
  \cup (IF p.stop_order_id # None THEN {p.stop_order_id} ELSE {})

\* the exit _handle_stop_loss_hit reports
StopExit(p) ==
  [reason |-> "STOP_LOSS", price |-> p.stop_loss, size |-> p.position_size,
   pnl |-> PnL(p.direction, p.entry_price, p.stop_loss, p.position_size)]

\* _check_position_status on position p: the position afterwards, the legs
\* reported filled, whether the stop was handled
check_position_status(p, open_ids, t) ==
  LET hits == Hits(p, open_ids)
      marked == MarkExecuted(p, hits)
      stop == StopHit(p, open_ids)
  IN [position |-> IF stop THEN MarkClosed(marked, "STOP_LOSS", t) ELSE marked,
      tp_exits |-> hits,
      stop |-> stop,
      cancels |-> IF stop THEN CancelIds(marked) ELSE {}]

\* which positions of the registry monitor_positions hands to
\* _check_position_status: list(self.active_positions.items()), all of them
MonitorSnapshot(h, reg) == [i \in 1..Len(reg) |-> reg[i].obj]

MonitorStart ==
  /\ mon.pc = "idle"
  /\ active_positions # <<>>
  /\ mon' = [pc |-> "run", snap |-> MonitorSnapshot(heap, active_positions), faulted |-> {}]
  /\ last' = NoLast
  /\ UNCHANGED <<now, heap, active_positions, next_obj, open_orders,
                 detected_patterns, task>>

\* the `for` of monitor_positions once a position is done: the next one, or
\* the end of the pass
MonitorAdvance(m) ==
  IF Tail(m.snap) = <<>> THEN [m EXCEPT !.pc = "idle", !.snap = <<>>]
  ELSE [m EXCEPT !.snap = Tail(m.snap)]

\* monitor_except that leaves the loop: C11_IsolatedInOrder fails
monitor_except_abort(m) == [m EXCEPT !.pc = "idle", !.snap = <<>>]

\* `except Exception as e` inside the loop: the error is logged and the loop
\* goes on
monitor_except(m) == MonitorAdvance(m)

\* q_ok: whether the open-orders query succeeds; cfail: the cancels the venue
\* refuses
MonitorStep(q_ok, cfail) ==
  /\ mon.pc = "run"
  /\ LET o == Head(mon.snap)
         r == check_position_status(heap[o], get_open_orders(open_orders, q_ok), now)
         m == MonitorAdvance(mon)
     IN /\ cfail \subseteq open_orders
        /\ open_orders' = open_orders \ (r.cancels \ cfail)
        /\ mon' = m
        /\ heap' = Collect([heap EXCEPT ![o] = r.position], active_positions, m)
        /\ last' = [NoLast EXCEPT !.op = "monitor", !.obj = o, !.ok = q_ok,
                                  !.was = heap[o].status,
                                  !.cancels = r.cancels, !.tp_exits = r.tp_exits,
                                  !.exit = IF r.stop THEN StopExit(heap[o]) ELSE NoExit]
  /\ UNCHANGED <<now, active_positions, next_obj, detected_patterns, task>>

\* _check_position_status raises before it gets to the legs (the price, the
\* open orders or their ids): the position is as it was
MonitorFault ==
  /\ mon.pc = "run"
  /\ LET o == Head(mon.snap)
         m == monitor_except([mon EXCEPT !.faulted = @ \cup {o}])
     IN /\ mon' = m
        /\ heap' = Collect(heap, active_positions, m)
        /\ last' = [NoLast EXCEPT !.op = "monitor_fault", !.obj = o, !.ok = FALSE,
                                  !.was = heap[o].status]
  /\ UNCHANGED <<now, active_positions, next_obj, open_orders, detected_patterns, task>>

---------------------------------------------------------------------------
(* The monitor on the MetaTrader connector.  MT5Connector hands the ticket   *)
(* of an order back as the integer result.order when it places it, which is  *)
(* what the position records, and as the string str(order.ticket) when it    *)
(* lists the open orders.  A string is equal to no integer: the string of    *)
(* ticket n is written here as a number apart from every ticket and from     *)
(* None.                                                                     *)

\* str(order.ticket)
Str(n) == 0 - n - 2

\* MT5Connector.get_open_orders: 'id': str(order.ticket) for each open order,
\* [] when the terminal is not connected or the query fails
mt5_get_open_orders(oo, q_ok) == IF q_ok THEN {Str(id) : id \in oo} ELSE {}

\* One position of a monitor pass with the MetaTrader connector; cancel_order
\* converts the id with int() and removes the order.
MonitorStepMT5(q_ok, cfail) ==
  /\ mon.pc = "run"
  /\ LET o == Head(mon.snap)
         r == check_position_status(heap[o], mt5_get_open_orders(open_orders, q_ok), now)
         m == MonitorAdvance(mon)
     IN /\ cfail \subseteq open_orders
        /\ open_orders' = open_orders \ (r.cancels \ cfail)
        /\ mon' = m
        /\ heap' = Collect([heap EXCEPT ![o] = r.position], active_positions, m)
        /\ last' = [NoLast EXCEPT !.op = "monitor", !.obj = o, !.ok = q_ok,
                                  !.was = heap[o].status,
                                  !.cancels = r.cancels, !.tp_exits = r.tp_exits,
                                  !.exit = IF r.stop THEN StopExit(heap[o]) ELSE NoExit]
  /\ UNCHANGED <<now, active_positions, next_obj, detected_patterns, task>>

---------------------------------------------------------------------------
(* PositionManager._force_close_position, as close_all_positions calls it *)

\* the size of the closing market order
CloseSize(p) == p.position_size

\* cfail: the cancels the venue refuses; market_ok: whether it accepts the
\* closing order; price: get_current_price
ForceClose(o, reason, cfail, market_ok, price) ==
  /\ o \in Objs(active_positions)
  /\ heap[o].status = "ACTIVE"
  /\ LET p == heap[o]
         ids == CancelIds(p)
         size == CloseSize(p)
         l == [NoLast EXCEPT !.op = "force_close", !.obj = o, !.ok = market_ok,
                             !.was = p.status,
                             !.cancels = ids,
                             !.orders = <<Order("market", OppositeSide(p.direction), size, 0)>>]
     IN /\ cfail \subseteq open_orders
        /\ open_orders' = open_orders \ (ids \ cfail)
        /\ IF market_ok
           THEN /\ heap' = [heap EXCEPT ![o] = MarkClosed(p, reason, now)]
                /\ last' = [l EXCEPT !.exit = [reason |-> reason, price |-> price, size |-> size,
                                               pnl |-> PnL(p.direction, p.entry_price, price, size)]]
           ELSE /\ heap' = heap
                /\ last' = l
  /\ UNCHANGED <<now, active_positions, next_obj, detected_patterns, task, mon>>

---------------------------------------------------------------------------
(* The venue *)

\* an open order fills, expires or is removed at the venue
VenueFill(id) ==
  /\ id \in open_orders
  /\ open_orders' = open_orders \ {id}
  /\ last' = NoLast
  /\ UNCHANGED <<now, heap, active_positions, next_obj, detected_patterns, task, mon>>

---------------------------------------------------------------------------
(* HarmonicTradingBot.daily_cleanup *)

\* positions_to_remove with <= for <: C10_CleanupExact fails
positions_to_remove_inclusive(h, reg, t, days) ==
  {reg[i].key : i \in {j \in 1..Len(reg) :
      /\ h[reg[j].obj].status = "CLOSED"
      /\ h[reg[j].obj].close_time # None
      /\ h[reg[j].obj].close_time <= t - days * TicksPerDay}}

\* the keys cleanup_old_positions collects
positions_to_remove(h, reg, t, days) ==
  {reg[i].key : i \in {j \in 1..Len(reg) :
      /\ h[reg[j].obj].status = "CLOSED"
      /\ h[reg[j].obj].close_time # None
      /\ h[reg[j].obj].close_time < t - days * TicksPerDay}}

cleanup_old_positions(h, reg, t, days) == DictDel(reg, positions_to_remove(h, reg, t, days))

\* _cleanup_old_patterns(max_age_hours=48)
cleanup_old_patterns(det, t) ==
  [k \in {x \in DOMAIN det : ~((t - det[x].detection_time) > PatternMaxAgeHours * 3600)}
     |-> det[k]]

DailyCleanup ==
  /\ LET reg == cleanup_old_positions(heap, active_positions, now, RetentionDays)
     IN /\ active_positions' = reg
        /\ heap' = Collect(heap, reg, mon)
  /\ detected_patterns' = cleanup_old_patterns(detected_patterns, now)
  /\ last' = [NoLast EXCEPT !.op = "cleanup",
                            !.removed = positions_to_remove(heap, active_positions, now,
                                                            RetentionDays)]
  /\ UNCHANGED <<now, next_obj, open_orders, task, mon>>

---------------------------------------------------------------------------
(* The system *)

\* The bot with several patterns and positions within a few seconds:
\* positions are opened on the second series of FineSeries with their stop
\* order and no take-profit leg, and the venue honours every cancel.
Next ==
  \/ Tick(1, MaxTicks)
  \/ \E ks \in SUBSET PatternKeys : AnalyzeStart(ks, 2)
  \/ SkipPattern
  \/ \E tb \in BOOLEAN, size \in Sizes, market_ok \in BOOLEAN :
        ProcessPattern(MaxObjs, tb, size, market_ok, TRUE, {})
  \/ AnalyzeDone
  \/ MonitorStart
  \/ \E q_ok \in BOOLEAN : MonitorStep(q_ok, {})
  \/ \E o \in Objs(active_positions), market_ok \in BOOLEAN :
        ForceClose(o, "MANUAL", {}, market_ok, 90000)
  \/ \E id \in open_orders : VenueFill(id)

Spec == Init /\ [][Next]_vars

\* The position manager over the retention period, with the daily cleanup:
\* positions are opened on the first pattern with their stop order and no
\* take-profit leg; the venue answers every query and honours every cancel
\* and closing order.
NextClean ==
  \/ \E d \in {1, RetentionTicks} : Tick(d, MaxAgeTicks)
  \/ \E size \in Sizes, market_ok \in BOOLEAN :
        ExecuteEntry(MaxObjs, 1, 2, TRUE, size, market_ok, TRUE, {})
  \/ MonitorStart
  \/ MonitorStep(TRUE, {})
  \/ \E o \in Objs(active_positions) : ForceClose(o, "MANUAL", {}, TRUE, 90000)
  \/ \E id \in open_orders : VenueFill(id)
  \/ DailyCleanup

SpecClean == Init /\ [][NextClean]_vars

\* The position manager with one position of either direction over its life,
\* with every combination of accepted bracket legs, while the clock stands.
\* Attempts stopped by the trendline gate, the size or the market order come
\* first, then those that get to the bracket orders.
NextLegs ==
  \/ \E k \in 1..2, fine \in DOMAIN FineSeries, tb \in BOOLEAN, size \in Sizes,
        market_ok \in BOOLEAN :
        /\ ~(tb /\ size > 0 /\ market_ok)
        /\ ExecuteEntry(1, k, fine, tb, size, market_ok, TRUE, {})
  \/ \E k \in 1..2, fine \in DOMAIN FineSeries, size \in Sizes \ {0}, stop_ok \in BOOLEAN,
        tp_ok \in SUBSET (1..MaxTakeProfits) :
        ExecuteEntry(1, k, fine, TRUE, size, TRUE, stop_ok, tp_ok)
  \/ MonitorStart
  \/ \E q_ok \in BOOLEAN, cfail \in SUBSET open_orders : MonitorStep(q_ok, cfail)
  \/ \E o \in Objs(active_positions), cfail \in SUBSET open_orders, market_ok \in BOOLEAN,
        price \in Prices : ForceClose(o, "MANUAL", cfail, market_ok, price)
  \/ \E id \in open_orders : VenueFill(id)

SpecLegs == Init /\ [][NextLegs]_vars

\* The monitor over several positions opened in different seconds, each with
\* its stop order, when the check of a position can raise.
NextMon ==
  \/ Tick(1, MaxAgeTicks)
  \/ ExecuteEntry(MaxObjs, 1, 2, TRUE, 3, TRUE, TRUE, {})
  \/ MonitorStart
  \/ MonitorStep(TRUE, {})
  \/ MonitorFault
  \/ \E id \in open_orders : VenueFill(id)

SpecMon == Init /\ [][NextMon]_vars

\* ConfirmationSystem.check_entry_confirmations on its own, over the
\* structures, fine series and trendline outcomes below
Closes == {85000, 88860, 90000, 91140, 95000}

ConfirmInputs ==
  [pattern : PatternKeys, n5m : 0..2, close : Closes, trendline_break : BOOLEAN]

InitConfirm ==
  /\ Constructed
  /\ \E in \in ConfirmInputs :
        last = [NoLast EXCEPT !.op = "input",
                             !.calc = [fn |-> "check_entry_confirmations", in |-> in]]

Confirm ==
  /\ last.op = "input"
  /\ last.calc.fn = "check_entry_confirmations"
  /\ LET in == last.calc.in
         pattern == Pattern(in.pattern)
         zones == create_fibonacci_zones(pattern)
     IN last' = [last EXCEPT !.op = "result",
                             !.calc = [fn |-> "check_entry_confirmations", in |-> in,
                                       out |-> check_entry_confirmations(
                                                 pattern, zones, in.n5m, in.close,
                                                 in.trendline_break)]]
  /\ UNCHANGED <<now, heap, active_positions, next_obj, open_orders,
                 detected_patterns, task, mon>>

NextConfirm == Confirm

SpecConfirm == InitConfirm /\ [][NextConfirm]_vars

\* HarmonicPatternDetector._find_butterfly_patterns on its own, over the
\* pivot series of MaxPivots pivots of either kind at the prices below:
\* 2000, 1000, 1786, 1300, 2272 is a butterfly, and equal prices give legs of
\* length zero
PivotPrices == {1000, 1300, 1786, 2000, 2272}

\* the series of the pivots at prices ps and of kinds ts, in index order
PivotSeries(ps, ts) ==
  [i \in 1..MaxPivots |-> [index |-> i, price |-> ps[i], type |-> ts[i], timestamp |-> i]]

InitDetect ==
  /\ Constructed
  /\ \E ps \in [1..MaxPivots -> PivotPrices], ts \in [1..MaxPivots -> {"high", "low"}] :
        last = [NoLast EXCEPT !.op = "input",
                             !.calc = [fn |-> "find_butterfly_patterns",
                                       in |-> PivotSeries(ps, ts)]]

Detect ==
  /\ last.op = "input"
  /\ last.calc.fn = "find_butterfly_patterns"
  /\ last' = [last EXCEPT !.op = "result",
                          !.calc = [fn |-> "find_butterfly_patterns", in |-> last.calc.in,
                                    out |-> find_butterfly_patterns(last.calc.in)]]
  /\ UNCHANGED <<now, heap, active_positions, next_obj, open_orders,
                 detected_patterns, task, mon>>

NextDetect == Detect

SpecDetect == InitDetect /\ [][NextDetect]_vars

\* HarmonicPatternDetector._is_butterfly_pattern and _calculate_confidence on
\* a ratios dict, each ratio absent or one of the values below (in 1/1000)
RatioOf(v) == IF v = None THEN NoRatio ELSE [num |-> v, den |-> 1000]

RatioInputs ==
  [AB_XA : {None, 500, 786},
   BC_AB : {None, 618, 700},
   CD_BC : {None, 1618, 2000, 2050, 2118, 2200, 2618, 4000},
   AD_XA : {None, 1270, 1400, 1420, 1444, 1500, 1618, 3000}]

InitRatios ==
  /\ Constructed
  /\ \E in \in RatioInputs :
        last = [NoLast EXCEPT !.op = "input", !.calc = [fn |-> "calculate_confidence", in |-> in]]

Score ==
  /\ last.op = "input"
  /\ last.calc.fn = "calculate_confidence"
  /\ LET in == last.calc.in
         ratios == [AB_XA |-> RatioOf(in.AB_XA), BC_AB |-> RatioOf(in.BC_AB),
                    CD_BC |-> RatioOf(in.CD_BC), AD_XA |-> RatioOf(in.AD_XA)]
     IN last' = [last EXCEPT !.op = "result",
                             !.calc = [fn |-> "calculate_confidence", in |-> in,
                                       out |-> [accepted |-> is_butterfly_pattern(ratios),
                                                confidence |-> calculate_confidence(ratios)]]]
  /\ UNCHANGED <<now, heap, active_positions, next_obj, open_orders,
                 detected_patterns, task, mon>>

NextRatios == Score

SpecRatios == InitRatios /\ [][NextRatios]_vars

\* the patterns detect_patterns can return at time t: those completed by
\* then whose candles are among the last AnalysisBars bars
Detectable(t) ==
  {k \in PatternKeys :
     /\ Pattern(k).completion_time <= t
     /\ t - Pattern(k).completion_time < AnalysisBars * BarSeconds}

\* The bot analysing over more than the life of a cache entry: analysis
\* cycles on the patterns inside the analysis window, entries with their stop
\* order and no take-profit leg, the daily cleanup, and a clock that goes on
\* by a second or by a retention period.
NextWindow ==
  \/ \E d \in {1, RetentionTicks} : Tick(d, MaxTicks)
  \/ \E ks \in SUBSET Detectable(now) : AnalyzeStart(ks, 2)
  \/ SkipPattern
  \/ \E tb \in BOOLEAN : ProcessPattern(MaxObjs, tb, 3, TRUE, TRUE, {})
  \/ AnalyzeDone
  \/ DailyCleanup

SpecWindow == Init /\ [][NextWindow]_vars

\* The position manager on the MetaTrader connector: one position of either
\* direction with every combination of accepted bracket orders, the monitor,
\* and the venue filling orders.
NextMT5 ==
  \/ \E k \in 1..2, stop_ok \in BOOLEAN, tp_ok \in SUBSET (1..MaxTakeProfits) :
        ExecuteEntry(1, k, 2, TRUE, 3, TRUE, stop_ok, tp_ok)
  \/ MonitorStart
  \/ \E q_ok \in BOOLEAN : MonitorStepMT5(q_ok, {})
  \/ \E id \in open_orders : VenueFill(id)

SpecMT5 == Init /\ [][NextMT5]_vars

\* The position manager over a retention period, as the main loop drives it:
\* one position at a time, opened with or without its stop order and no
\* take-profit leg. The loop of HarmonicTradingBot.start calls
\* monitor_positions every 10 seconds and runs the scheduled daily_cleanup
\* every day, while the clock goes on: a pass of the monitor that can start
\* does start, a pass under way goes on, a cleanup that would remove
\* something runs, and time passes up to the end of the period modelled.
NextPurge ==
  \/ \E d \in {1, RetentionTicks} : Tick(d, MaxAgeTicks)
  \/ \E stop_ok \in BOOLEAN : ExecuteEntry(1, 1, 2, TRUE, 3, TRUE, stop_ok, {})
  \/ MonitorStart
  \/ MonitorStep(TRUE, {})
  \/ \E o \in Objs(active_positions) : ForceClose(o, "MANUAL", {}, TRUE, 90000)
  \/ \E id \in open_orders : VenueFill(id)
  \/ DailyCleanup

SpecPurge ==
  /\ Init
  /\ [][NextPurge]_vars
  /\ WF_vars(\E d \in {1, RetentionTicks} : Tick(d, MaxAgeTicks))
  /\ WF_vars(MonitorStart)
  /\ WF_vars(MonitorStep(TRUE, {}))
  /\ WF_vars(DailyCleanup)

\* The levels of an entry on their own: ZoneManager.create_fibonacci_zones,
\* ConfirmationSystem.check_entry_confirmations and the stop-loss and
\* take-profit prices of PositionManager, for a structure ending at D after C
\* at the prices below, of either direction, and the fine series below.
LevelPrices == {80000, 90000, 100000, 110000}
LevelCloses == {70000, 85000, 88860, 90000, 91140, 95000, 100000, 120000}

\* the pattern dict as far as the levels read it
PatternAt(D, C, direction) ==
  [type |-> "butterfly", completion_time |-> 0, direction |-> direction, D |-> D, C |-> C]

LevelInputs ==
  [D : LevelPrices, C : LevelPrices, direction : {"bearish", "bullish"},
   n5m : 0..2, close : LevelCloses, trendline_break : BOOLEAN]

InitLevels ==
  /\ Constructed
  /\ \E in \in LevelInputs :
        last = [NoLast EXCEPT !.op = "input", !.calc = [fn |-> "levels", in |-> in]]

Levels ==
  /\ last.op = "input"
  /\ last.calc.fn = "levels"
  /\ LET in == last.calc.in
         pattern == PatternAt(in.D, in.C, in.direction)
         zones == create_fibonacci_zones(pattern)
     IN last' = [last EXCEPT !.op = "result",
                             !.calc = [fn |-> "levels", in |-> in,
                                       out |-> [zones |-> zones,
                                                confirmations |->
                                                  check_entry_confirmations(
                                                    pattern, zones, in.n5m, in.close,
                                                    in.trendline_break),
                                                stop_loss |-> calculate_stop_loss(pattern),
                                                take_profits |->
                                                  calculate_take_profits(pattern, zones)]]]
  /\ UNCHANGED <<now, heap, active_positions, next_obj, open_orders,
                 detected_patterns, task, mon>>

NextLevels == Levels

SpecLevels == InitLevels /\ [][NextLevels]_vars

---------------------------------------------------------------------------
(* Steps, as the properties below recognise them *)

\* the step is one position of a monitor pass
IsMonitorStep == mon.pc = "run" /\ mon' # mon /\ last'.op = "monitor"

\* the step is a forced close
IsForceClose == last'.op = "force_close" /\ vars' # vars

\* the step is an entry attempt that got past the confirmation
IsEntryAttempt == last'.op \in {"entry", "entry_rejected"} /\ vars' # vars

\* the step is the daily cleanup
IsCleanup == last'.op = "cleanup" /\ vars' # vars

ActiveObjs == {o \in Objs(active_positions) : heap[o].status = "ACTIVE"}

---------------------------------------------------------------------------
(* C1 *)

C1_Rejected ==
  (IsEntryAttempt /\ Cardinality(ActiveObjs) >= MAX_POSITIONS)
    => /\ last'.op = "entry_rejected"
       /\ active_positions' = active_positions
       /\ heap' = heap
       /\ open_orders' = open_orders

---------------------------------------------------------------------------
(* C2 *)

C2_Frozen ==
  \A o \in DOMAIN heap \cap DOMAIN heap' :
    heap[o].status = "CLOSED"
      => /\ heap'[o].status = "CLOSED"
         /\ heap'[o].close_reason = heap[o].close_reason
         /\ heap'[o].close_time = heap[o].close_time

\* C2: once a position is CLOSED, no step changes its status, its close
\* reason or its close time, and a monitor pass checks ACTIVE positions only.
C2_ClosedIsTerminal ==
  [][/\ C2_Frozen
     /\ IsMonitorStep => heap[Head(mon.snap)].status = "ACTIVE"]_vars

---------------------------------------------------------------------------
(* C3 *)

AllLegsExecuted(p) ==
  /\ p.tp_orders # <<>>
  /\ \A i \in 1..Len(p.tp_orders) : p.tp_orders[i].executed

C3_Step ==
  (/\ IsMonitorStep
   /\ last'.ok
   /\ heap[Head(mon.snap)].status = "ACTIVE"
   /\ Head(mon.snap) \in DOMAIN heap'
   /\ AllLegsExecuted(heap'[Head(mon.snap)]))
    => heap'[Head(mon.snap)].status = "CLOSED"

\* C3: when a monitor step (its open-orders query answered) leaves every
\* recorded take-profit leg of an ACTIVE position marked executed, the
\* position is CLOSED.
C3_ExhaustionCloses == [][C3_Step]_vars

---------------------------------------------------------------------------
(* C4 *)

C4_Step ==
  IsMonitorStep =>
    LET o == Head(mon.snap)
        p == heap[o]
    IN (/\ p.status = "ACTIVE"
        /\ p.stop_order_id # None
        /\ p.stop_order_id \notin open_orders
        /\ o \in DOMAIN heap')
       => LET q == heap'[o]
          IN /\ q.status = "CLOSED"
             /\ q.close_reason = "STOP_LOSS"
             /\ last'.exit.reason = "STOP_LOSS"
             /\ last'.exit.price = p.stop_loss
             /\ last'.exit.size = p.position_size
             /\ last'.exit.pnl =
                  (IF p.direction = "BUY" THEN p.stop_loss - p.entry_price
                   ELSE p.entry_price - p.stop_loss) * p.position_size
             /\ \A i \in 1..Len(q.tp_orders) :
                  ~q.tp_orders[i].executed => q.tp_orders[i].order_id \in last'.cancels

\* C4: when a monitor pass reaches an ACTIVE position whose stop order id is
\* not among the venue's open orders, the position becomes CLOSED with
\* reason STOP_LOSS, the exit reported carries the stop price, the whole
\* position size and the PnL of that size at that price, and a cancel is
\* issued for every take-profit leg not marked executed.
C4_StopLossCloses == [][C4_Step]_vars

\* a stop hit on an ACTIVE position with one leg executed and one cancelled
C4_Witness ==
  /\ last.op = "monitor"
  /\ last.was = "ACTIVE"
  /\ last.ok
  /\ last.exit.reason = "STOP_LOSS"
  /\ last.obj \in DOMAIN heap
  /\ \E i, j \in 1..Len(heap[last.obj].tp_orders) :
       /\ heap[last.obj].tp_orders[i].executed
       /\ ~heap[last.obj].tp_orders[j].executed
       /\ heap[last.obj].tp_orders[j].order_id \in last.cancels

---------------------------------------------------------------------------
(* C5 *)

OnlyMarket(orders) == \A i \in 1..Len(orders) : orders[i].kind = "market"

C5_Operator ==
  \A k \in PatternKeys, f \in DOMAIN FineSeries, tb \in BOOLEAN, size \in Sizes,
     market_ok \in BOOLEAN, stop_ok \in BOOLEAN, tp_ok \in {{}, 1..MaxTakeProfits} :
    LET zones == create_fibonacci_zones(Pattern(k))
        conf == check_entry_confirmations(Pattern(k), zones, FineSeries[f].len,
                                          FineSeries[f].close, tb)
        r == execute_entry_signal(heap, active_positions, open_orders, next_obj, now,
                                  Pattern(k), zones, conf, size, market_ok, stop_ok, tp_ok)
    IN (~conf.entry_signal \/ size <= 0 \/ ~market_ok)
       => /\ ~r.ok
          /\ r.reg = active_positions
          /\ r.heap = heap
          /\ r.open = open_orders
          /\ OnlyMarket(r.orders)
          /\ (~conf.entry_signal \/ size <= 0) => r.orders = <<>>

C5_Step ==
  (last'.op = "entry" /\ ~last'.ok /\ vars' # vars)
    => /\ active_positions' = active_positions
       /\ heap' = heap
       /\ open_orders' = open_orders
       /\ OnlyMarket(last'.orders)

\* C5: an entry attempt with entry_signal false, a size <= 0 or a refused
\* market order returns failure, leaves the registry, the positions and the
\* venue's open orders as they were and submits no stop or limit order;
\* without a signal or with a size <= 0 it submits no order at all.
C5_FailedEntryPersistsNothing == []C5_Operator /\ [][C5_Step]_vars

\* the market order of an attempt was refused while a position is registered
C5_Witness ==
  /\ last.op = "entry"
  /\ ~last.ok
  /\ Len(last.orders) = 1
  /\ active_positions # <<>>

---------------------------------------------------------------------------
(* C6 *)

C6_Step ==
  (last'.op = "entry" /\ last'.ok /\ vars' # vars)
    => /\ heap'[last'.obj].id \notin Keys(active_positions)
       /\ Len(active_positions') = Len(active_positions) + 1
       /\ \A i \in 1..Len(active_positions) : active_positions'[i] = active_positions[i]

\* C6: a successful entry stores its position under a key the registry did
\* not hold: the registry grows by one entry and keeps every entry it had.
C6_FreshId == [][C6_Step]_vars

---------------------------------------------------------------------------
(* C7 *)

C7_Step ==
  (IsMonitorStep /\ ~last'.ok)
    => /\ \A o \in DOMAIN heap \cap DOMAIN heap' : heap'[o] = heap[o]
       /\ last'.tp_exits = {}
       /\ last'.exit = NoExit

\* C7: a monitor step whose open-orders query failed changes no position
\* (status, executed marks) and reports no exit.
C7_QueryFailureDeferred == [][C7_Step]_vars

---------------------------------------------------------------------------
(* C8 *)

\* the ids of the stop order and of the legs not marked executed
RemainingLegIds(p) ==
  {p.tp_orders[i].order_id : i \in {j \in 1..Len(p.tp_orders) : ~p.tp_orders[j].executed}}
  \cup {x \in {p.stop_order_id} : x # None}

\* C8 as stated: a forced close of an ACTIVE position always leaves it CLOSED
\* with the reason given, its remaining legs cancelled.
C8_AlwaysClosed ==
  [][IsForceClose =>
       /\ last'.cancels = RemainingLegIds(heap[last'.obj])
       /\ heap'[last'.obj].status = "CLOSED"
       /\ heap'[last'.obj].close_reason = "MANUAL"]_vars

\* C8: a forced close of an ACTIVE position issues a cancel for its stop
\* order and every leg not marked executed, and submits the closing order;
\* if the venue accepts that order the position is CLOSED with the reason
\* given and the current time, otherwise the position record is unchanged.
C8_ClosedWhenFilled ==
  [][IsForceClose =>
       LET p == heap[last'.obj]
           q == heap'[last'.obj]
       IN /\ last'.was = "ACTIVE"
          /\ last'.cancels = RemainingLegIds(p)
          /\ IF last'.ok
             THEN /\ q.status = "CLOSED"
                  /\ q.close_reason = "MANUAL"
                  /\ q.close_time = now
                  /\ q.tp_orders = p.tp_orders
             ELSE q = p]_vars

\* a forced close whose order was accepted, with legs to cancel
C8_Witness ==
  /\ last.op = "force_close"
  /\ last.ok
  /\ Cardinality(last.cancels) >= 2
  /\ heap[last.obj].status = "CLOSED"
  /\ heap[last.obj].close_reason = "MANUAL"

---------------------------------------------------------------------------
(* C9 *)

\* every leg marked executed has left the venue's open orders
ExecutedLegsGone(p) ==
  \A i \in 1..Len(p.tp_orders) :
    p.tp_orders[i].executed => p.tp_orders[i].order_id \notin open_orders

ExecutedSize(p) ==
  SeqSum([i \in 1..Len(p.tp_orders) |->
            IF p.tp_orders[i].executed THEN p.tp_orders[i].size ELSE 0])

\* C9: the order a forced close submits is one market order on the side
\* opposite to the position, for the position size less the sizes of the
\* legs marked executed (legs that have filled at the venue).
C9_RemainingSize ==
  [][(IsForceClose /\ ExecutedLegsGone(heap[last'.obj])) =>
       LET p == heap[last'.obj]
       IN last'.orders =
            <<[kind |-> "market",
               side |-> IF p.direction = "BUY" THEN "sell" ELSE "buy",
               size |-> p.position_size - ExecutedSize(p),
               price |-> 0]>>]_vars

---------------------------------------------------------------------------
(* C10 *)

\* the keys of the CLOSED positions whose close time is before t - days
OldClosedKeys(t) ==
  {active_positions[i].key : i \in {j \in 1..Len(active_positions) :
      LET p == heap[active_positions[j].obj]
      IN /\ p.status = "CLOSED"
         /\ p.close_time # None
         /\ p.close_time < t - RetentionDays * 86400}}

C10_Step ==
  IsCleanup =>
    /\ Keys(active_positions) \ Keys(active_positions') = OldClosedKeys(now)
    /\ Keys(active_positions') \subseteq Keys(active_positions)
    /\ \A i \in 1..Len(active_positions) :
         heap[active_positions[i].obj].status = "ACTIVE"
           => \E j \in 1..Len(active_positions') : active_positions'[j] = active_positions[i]
    /\ cleanup_old_positions(heap', active_positions', now', RetentionDays) = active_positions'

\* C10: the cleanup removes from the registry exactly the positions that are
\* CLOSED with a close time before now - 7 days, keeps every ACTIVE
\* position, and a second cleanup at the same time removes nothing more.
C10_CleanupExact == [][C10_Step]_vars

\* a cleanup has removed a position while an older ACTIVE one stays
C10_Witness ==
  /\ last.op = "cleanup"
  /\ last.removed # {}
  /\ now >= RetentionTicks
  /\ \E i \in 1..Len(active_positions) :
       /\ heap[active_positions[i].obj].status = "ACTIVE"
       /\ heap[active_positions[i].obj].id.stamp < now - RetentionTicks

---------------------------------------------------------------------------
(* C11 *)

\* the position of object o in the registry
RegIndex(reg, o) == CHOOSE i \in 1..Len(reg) : reg[i].obj = o

C11_Step ==
  /\ (mon.pc = "idle" /\ mon'.pc = "run")
       => mon'.snap = [i \in 1..Len(active_positions) |-> active_positions[i].obj]
  /\ (mon.pc = "run" /\ mon' # mon)
       => /\ last'.op \in {"monitor", "monitor_fault"}
          /\ last'.obj = Head(mon.snap)
          /\ mon'.snap = Tail(mon.snap)
          /\ (mon'.pc = "run") = (Tail(mon.snap) # <<>>)

\* C11: a monitor pass takes the positions in the registry's insertion order,
\* one after the other, and a position whose check raises is followed by the
\* next position of the pass all the same: nothing is skipped or reordered.
C11_IsolatedInOrder == [][C11_Step]_vars

\* a position was checked and closed on its missing stop after the check of
\* an earlier position of the same pass had raised
C11_Witness ==
  /\ last.op = "monitor"
  /\ last.exit.reason = "STOP_LOSS"
  /\ last.obj \notin mon.faulted
  /\ \E f \in mon.faulted :
        /\ f \in Objs(active_positions)
        /\ last.obj \in Objs(active_positions)
        /\ RegIndex(active_positions, f) < RegIndex(active_positions, last.obj)

---------------------------------------------------------------------------
(* C12 *)

\* the order ids a position record holds
RecordedIds(p) ==
  {p.tp_orders[i].order_id : i \in 1..Len(p.tp_orders)}
  \cup (IF p.stop_order_id # None THEN {p.stop_order_id} ELSE {})

C12_Entry ==
  (IsEntryAttempt /\ last'.op = "entry" /\ last'.ok)
    => LET o == last'.obj
           p == heap'[o]
       IN /\ o \in Objs(active_positions')
          /\ p.status = "ACTIVE"
          /\ RecordedIds(p) = open_orders' \ open_orders
          /\ Cardinality(RecordedIds(p)) =
               Len(p.tp_orders) + (IF p.stop_order_id # None THEN 1 ELSE 0)
          /\ Len(last'.orders) = 2 + Len(p.take_profits)

C12_Monitor ==
  IsMonitorStep =>
    LET o == Head(mon.snap)
        p == heap[o]
    IN /\ o \in DOMAIN heap'
       /\ Len(heap'[o].tp_orders) = Len(p.tp_orders)
       /\ last'.tp_exits \subseteq 1..Len(p.tp_orders)
       /\ p.stop_order_id = None
            => /\ heap'[o].status = p.status
               /\ heap'[o].stop_order_id = None
               /\ last'.exit = NoExit
               /\ last'.cancels = {}

\* C12: an entry whose market order is filled registers an ACTIVE position
\* holding exactly the bracket orders the venue accepted, whichever of the
\* stop and limit orders it refused; a monitor step reports no leg the record
\* does not hold, and never closes a position that holds no stop order.
C12_MissingLegIgnored == [][C12_Entry /\ C12_Monitor]_vars

\* the monitor has just checked an ACTIVE position that holds no stop order
\* and fewer legs than it has take-profit levels, and reported a leg filled
C12_Witness ==
  /\ last.op = "monitor"
  /\ last.ok
  /\ last.obj \in DOMAIN heap
  /\ heap[last.obj].status = "ACTIVE"
  /\ heap[last.obj].stop_order_id = None
  /\ Len(heap[last.obj].tp_orders) \in 1..(Len(heap[last.obj].take_profits) - 1)
  /\ last.tp_exits # {}
  /\ last.exit = NoExit

---------------------------------------------------------------------------
(* C13 *)

\* the step takes the next pattern of the running analysis cycle
IsPatternStep == task.pc = "run" /\ task.rem # <<>> /\ task'.rem = Tail(task.rem)

C13_Step ==
  (IsPatternStep /\ Head(task.rem) \in DOMAIN detected_patterns)
    => /\ last'.op = "skip"
       /\ last'.orders = <<>>
       /\ UNCHANGED <<heap, active_positions, next_obj, open_orders, detected_patterns>>

\* C13: when an analysis cycle comes to a pattern whose key is in the
\* detected-pattern cache, it goes past it: no zones, confirmation or entry,
\* no order, no notification, and the cache entry, the registry and the
\* venue's orders are as they were.
C13_NoReprocessing == [][C13_Step]_vars

\* a cycle has just gone past a cached pattern whose first processing opened
\* a position, while there was room for another position
C13_Witness ==
  /\ last.op = "skip"
  /\ task.pc = "run"
  /\ active_positions # <<>>
  /\ ~AtCapacity(heap, active_positions)
  /\ \E k \in DOMAIN detected_patterns :
        \E o \in Objs(active_positions) : heap[o].pattern = Pattern(k).completion_time

---------------------------------------------------------------------------
(* C14 *)

\* the state holds the result of fn
IsResult(fn) == last.op = "result" /\ last.calc.fn = fn

\* the gates a confirmation result reports as passed
GatesPassed(out) ==
  {g \in {"candle", "trendline", "zone"} :
     \/ g = "candle" /\ out.candle_5m_confirmation
     \/ g = "trendline" /\ out.trendline_break
     \/ g = "zone" /\ out.zone_break}

\* C14: the total score of a confirmation result is the number of gates that
\* passed, between 0 and 3, and the entry signal is set exactly when the
\* candle-close, trendline-break and zone-break gates all passed; with two
\* gates passed it is not set.
C14_SignalIffAllGates ==
  IsResult("check_entry_confirmations") =>
    LET out == last.calc.out
        n == Cardinality(GatesPassed(out))
    IN /\ out.total_score = n
       /\ out.total_score \in 0..3
       /\ out.entry_signal = (n = 3)
       /\ n = 2 => ~out.entry_signal

\* a result with exactly two gates passed, the trendline gate one of them
C14_Witness ==
  /\ IsResult("check_entry_confirmations")
  /\ Cardinality(GatesPassed(last.calc.out)) = 2
  /\ last.calc.out.trendline_break
  /\ ~last.calc.out.entry_signal

---------------------------------------------------------------------------
(* C15 *)

\* the side of a pattern's direction
SideOf(direction) == IF direction = "bearish" THEN "SELL" ELSE "BUY"

\* C15 as stated, for every confirmation result: the entry direction is Sell
\* for a bearish and Buy for a bullish pattern, and the entry price is the
\* close of the last fine-timeframe candle.
C15_DirectionPriceAlways ==
  IsResult("check_entry_confirmations") =>
    /\ last.calc.out.entry_direction = SideOf(Pattern(last.calc.in.pattern).direction)
    /\ last.calc.out.entry_price = last.calc.in.close

\* C15: in a confirmation result whose entry signal is set, the entry
\* direction is Sell for a bearish and Buy for a bullish pattern and the entry
\* price is the close of the last fine-timeframe candle; in a result whose
\* signal is not set there is no direction, and the entry price is that close
\* if the candle gate passed and is not set otherwise.
C15_SignalDirectionPrice ==
  IsResult("check_entry_confirmations") =>
    LET out == last.calc.out
        in == last.calc.in
    IN IF out.entry_signal
       THEN /\ out.entry_direction = SideOf(Pattern(in.pattern).direction)
            /\ out.entry_price = in.close
       ELSE /\ out.entry_direction = "NONE"
            /\ out.entry_price = IF out.candle_5m_confirmation THEN in.close ELSE None

\* a result with the entry signal set for a bullish pattern
C15_Witness ==
  /\ IsResult("check_entry_confirmations")
  /\ last.calc.out.entry_signal
  /\ Pattern(last.calc.in.pattern).direction = "bullish"
  /\ last.calc.out.entry_direction = "BUY"
  /\ last.calc.out.entry_price = last.calc.in.close

---------------------------------------------------------------------------
(* C16 *)

Alternating(points) ==
  LET kinds == [i \in 1..5 |-> points[i].type]
  IN kinds \in {<<"low", "high", "low", "high", "low">>,
               <<"high", "low", "high", "low", "high">>}

\* the detector returned a pattern for the 5-pivot window starting at i
Returned(pivots, out, i) ==
  \E n \in 1..Len(out) : out[n].points = [j \in 1..5 |-> pivots[i + j - 1]]

\* C16: the points X, A, B, C, D of every pattern returned are of kinds low,
\* high, low, high, low or high, low, high, low, high; no pattern is returned
\* for a 5-pivot window of another kind sequence; a pattern is bearish if its
\* D is a high pivot and bullish if not.
C16_AlternatingKinds ==
  IsResult("find_butterfly_patterns") =>
    LET pivots == last.calc.in
        out == last.calc.out
    IN /\ \A n \in 1..Len(out) :
            /\ Alternating(out[n].points)
            /\ out[n].direction = IF out[n].points[5].type = "high"
                                  THEN "bearish" ELSE "bullish"
       /\ \A i \in 1..(Len(pivots) - 4) :
            ~Alternating([j \in 1..5 |-> pivots[i + j - 1]]) => ~Returned(pivots, out, i)

\* a bullish pattern was returned
C16_Witness ==
  /\ IsResult("find_butterfly_patterns")
  /\ \E n \in 1..Len(last.calc.out) :
        /\ last.calc.out[n].direction = "bullish"
        /\ last.calc.out[n].points[5].type = "low"

---------------------------------------------------------------------------
(* C17 *)

\* the ratio num/den exists and lies in [lo, hi] widened by 0.05, in 1/1000
RatioPasses(num, den, lo, hi) ==
  /\ den # 0
  /\ (lo - 50) * den <= 1000 * num
  /\ 1000 * num <= (hi + 50) * den

\* the ratio num/den is at least 0.3 below lo or above hi
RatioFar(num, den, lo, hi) ==
  /\ den # 0
  /\ \/ 1000 * num <= (lo - 300) * den
     \/ 1000 * num >= (hi + 300) * den

\* the four ratios of a window as <<num, den, lo, hi>>
WindowRatios(w) ==
  LET xa == Abs(w[2].price - w[1].price)
      ab == Abs(w[3].price - w[2].price)
      bc == Abs(w[4].price - w[3].price)
      cd == Abs(w[5].price - w[4].price)
      ad == Abs(w[5].price - w[2].price)
  IN <<<<ab, xa, 786, 786>>, <<bc, ab, 382, 886>>, <<cd, bc, 1618, 2618>>,
       <<ad, xa, 1270, 1618>>>>

PassCount(w) ==
  Cardinality({r \in 1..4 : RatioPasses(WindowRatios(w)[r][1], WindowRatios(w)[r][2],
                                         WindowRatios(w)[r][3], WindowRatios(w)[r][4])})

AllFar(w) ==
  \A r \in 1..4 : RatioFar(WindowRatios(w)[r][1], WindowRatios(w)[r][2],
                            WindowRatios(w)[r][3], WindowRatios(w)[r][4])

\* C17: a 5-pivot window of alternating kinds is returned as a pattern exactly
\* when at least 3 of its 4 ratio checks pass, a ratio with a zero denominator
\* being absent from the pattern's ratios and not passing; a window whose
\* ratios are all at least 0.3 away from their bands is not returned.
C17_ThreeOfFour ==
  IsResult("find_butterfly_patterns") =>
    LET pivots == last.calc.in
        out == last.calc.out
    IN /\ \A i \in 1..(Len(pivots) - 4) :
            LET w == [j \in 1..5 |-> pivots[i + j - 1]]
            IN /\ Alternating(w) => (Returned(pivots, out, i) <=> PassCount(w) >= 3)
               /\ AllFar(w) => ~Returned(pivots, out, i)
       /\ \A n \in 1..Len(out) :
            LET wr == WindowRatios(out[n].points)
                rs == out[n].ratios
            IN /\ Present(rs.AB_XA) <=> wr[1][2] # 0
               /\ Present(rs.BC_AB) <=> wr[2][2] # 0
               /\ Present(rs.CD_BC) <=> wr[3][2] # 0
               /\ Present(rs.AD_XA) <=> wr[4][2] # 0

\* a pattern was returned with exactly 3 of its 4 ratio checks passing
C17_Witness ==
  /\ IsResult("find_butterfly_patterns")
  /\ \E n \in 1..Len(last.calc.out) : PassCount(last.calc.out[n].points) = 3

---------------------------------------------------------------------------
(* C18 *)

\* the score of value v against the nearer of the targets t1 and t2
NearerScore(v, t1, t2, weight) ==
  Max(0, 100000 - Min(Abs(v - t1), Abs(v - t2)) * weight)

\* the ratios dict holds `name` and nothing else
OnlyRatio(in, name) ==
  /\ in[name] # None
  /\ \A other \in {"AB_XA", "BC_AB", "CD_BC", "AD_XA"} \ {name} : in[other] = None

\* C18: the confidence of a ratios dict that holds CD/BC alone is the score
\* of CD/BC against the nearer of 1.618 and 2.618, and that of a dict that
\* holds AD/XA alone the score of AD/XA against the nearer of 1.27 and 1.618.
C18_NearerTarget ==
  IsResult("calculate_confidence") =>
    LET in == last.calc.in
        out == last.calc.out
    IN /\ OnlyRatio(in, "CD_BC") => out.confidence = NearerScore(in.CD_BC, 1618, 2618, 50)
       /\ OnlyRatio(in, "AD_XA") => out.confidence = NearerScore(in.AD_XA, 1270, 1618, 100)

---------------------------------------------------------------------------
(* C19 *)

\* C19: the confidence computed from a ratios dict lies between 0 and 100
\* points, whichever of the four ratios the dict holds.
C19_ConfidenceInRange ==
  IsResult("calculate_confidence") =>
    /\ last.calc.out.confidence >= 0
    /\ last.calc.out.confidence <= 100000

\* the confidence of a dict that holds only an AD/XA far off both targets
C19_Witness ==
  /\ IsResult("calculate_confidence")
  /\ OnlyRatio(last.calc.in, "AD_XA")
  /\ last.calc.in.AD_XA = 3000
  /\ last.calc.out.confidence = 0

---------------------------------------------------------------------------
(* C20 *)

Centers == [AB_XA |-> 786, BC_AB |-> 618, CD_BC |-> 2000, AD_XA |-> 1500]

\* C20: the ratios AB/XA = 0.786, BC/AB = 0.618, CD/BC = 2.0, AD/XA = 1.5 are
\* accepted as a butterfly and their confidence is at least 90 points.
C20_CentersAccepted ==
  (IsResult("calculate_confidence") /\ last.calc.in = Centers)
    => /\ last.calc.out.accepted
       /\ last.calc.out.confidence >= 90000

\* the result for the ratios at the centers
C20_Witness ==
  /\ IsResult("calculate_confidence")
  /\ last.calc.in = Centers
  /\ last.calc.out.accepted

---------------------------------------------------------------------------
(* C21 *)

\* level is the price at ratio r/1000 of the way from D: below D for a
\* bearish structure, above it for a bullish one
IsLevel(level, in, r) ==
  IF in.direction = "bearish"
  THEN 1000 * (in.D - level) = Abs(in.D - in.C) * r
  ELSE 1000 * (level - in.D) = Abs(in.D - in.C) * r

\* C21: the zones are given by D, C and the direction alone: the level of
\* each ratio r of 0.236, 0.382, 0.5, 0.618, 0.786, 0.886 and 1.0 is
\* D - |D-C|*r for a bearish and D + |D-C|*r for a bullish structure, the
\* entry zone runs from min(D, level 0.886) to max(D, level 0.886), the
\* rebound zone from min(level 0.886, C) to max(level 0.886, C), and in both
\* the lower end is not above the upper end.
C21_ZonesFromDC ==
  IsResult("levels") =>
    LET in == last.calc.in
        z == last.calc.out.zones
    IN /\ IsLevel(z.fib_236, in, 236)
       /\ IsLevel(z.fib_382, in, 382)
       /\ IsLevel(z.fib_500, in, 500)
       /\ IsLevel(z.fib_618, in, 618)
       /\ IsLevel(z.fib_786, in, 786)
       /\ IsLevel(z.fib_886, in, 886)
       /\ IsLevel(z.fib_1000, in, 1000)
       /\ z.entry_zone.lower = (IF in.D <= z.fib_886 THEN in.D ELSE z.fib_886)
       /\ z.entry_zone.upper = (IF in.D <= z.fib_886 THEN z.fib_886 ELSE in.D)
       /\ z.rebound_zone.lower = (IF in.C <= z.fib_886 THEN in.C ELSE z.fib_886)
       /\ z.rebound_zone.upper = (IF in.C <= z.fib_886 THEN z.fib_886 ELSE in.C)
       /\ z.entry_zone.lower <= z.entry_zone.upper
       /\ z.rebound_zone.lower <= z.rebound_zone.upper
       /\ z.direction = in.direction

\* the zones of the bearish structure D = 100, C = 90: levels 93.82 and
\* 91.14, entry zone from 91.14 to 100; and of a bullish one
C21_Witness ==
  /\ IsResult("levels")
  /\ \/ /\ last.calc.in.D = 100000
        /\ last.calc.in.C = 90000
        /\ last.calc.in.direction = "bearish"
        /\ last.calc.out.zones.fib_618 = 93820
        /\ last.calc.out.zones.fib_886 = 91140
        /\ last.calc.out.zones.entry_zone = [upper |-> 100000, lower |-> 91140]
     \/ /\ last.calc.in.direction = "bullish"
        /\ last.calc.in.D = 80000
        /\ last.calc.in.C = 90000
        /\ last.calc.out.zones.fib_886 = 88860

---------------------------------------------------------------------------
(* C22 *)

\* the prices a take-profit may be drawn from: levels 0.618, 0.5, 0.382 and C
TargetLevels(p) ==
  LET zones == create_fibonacci_zones(Pattern(p.pattern))
  IN {zones.fib_618, zones.fib_500, zones.fib_382, Pattern(p.pattern).C}

\* later prices of the list lie further in the favourable direction
TowardFavorable(p) ==
  \A i \in 1..(Len(p.take_profits) - 1) :
    IF p.direction = "SELL"
    THEN p.take_profits[i + 1] < p.take_profits[i]
    ELSE p.take_profits[i + 1] > p.take_profits[i]

\* C22: the take-profit list of an opened position has at most 3 prices, all
\* among the levels 0.618, 0.5, 0.382 and C, and is ordered toward the
\* favourable direction: for a Sell each later price is lower than the one
\* before it, for a Buy each later price is higher.
C22_TakeProfitsOrdered ==
  \A o \in Objs(active_positions) :
    /\ Len(heap[o].take_profits) <= 3
    /\ Range(heap[o].take_profits) \subseteq TargetLevels(heap[o])
    /\ TowardFavorable(heap[o])

---------------------------------------------------------------------------
(* C23 *)

\* a monitor step whose open-orders query succeeded reports no leg that was
\* already marked executed, and no stop-loss exit of a position already
\* closed by its stop-loss
C23_Step ==
  (IsMonitorStep /\ last'.ok) =>
    LET o == last'.obj
    IN /\ \A i \in last'.tp_exits : ~heap[o].tp_orders[i].executed
       /\ last'.exit # NoExit => heap[o].close_reason # "STOP_LOSS"

\* C23: each exit is handled at most once: over any number of monitor passes
\* a take-profit leg is reported filled at most once, and the stop-loss exit
\* of a position is reported at most once.
C23_ExitsOnce == [][C23_Step]_vars

---------------------------------------------------------------------------
(* C24 *)

\* position o is in the registry, closed early enough for the retention
\* period to elapse after its close time within the period modelled
ClosedEarly(o) ==
  /\ o \in Objs(active_positions)
  /\ heap[o].status = "CLOSED"
  /\ heap[o].close_time # None
  /\ heap[o].close_time < MaxAgeTicks

\* C24: every closed position is eventually purged: while the monitor keeps
\* running and the cleanup runs periodically, a position that became closed
\* is removed from the registry once the retention period has elapsed since
\* it was first closed.
C24_ClosedEventuallyPurged ==
  \A o \in 1..MaxObjs : ClosedEarly(o) ~> (o \notin Objs(active_positions))

---------------------------------------------------------------------------
(* C25 *)

\* price lies on the profitable side of the entry of position p
Profitable(p, price) ==
  IF p.direction = "SELL" THEN price < p.entry_price ELSE price > p.entry_price

\* C25: every take-profit price of an opened position lies on the profitable
\* side of its entry price, below it for a Sell and above it for a Buy, so
\* that a filled take-profit leg never realizes a negative PnL.
C25_TakeProfitsProfitable ==
  \A o \in Objs(active_positions) :
    /\ \A i \in 1..Len(heap[o].take_profits) : Profitable(heap[o], heap[o].take_profits[i])
    /\ \A i \in 1..Len(heap[o].tp_orders) :
         PnL(heap[o].direction, heap[o].entry_price, heap[o].tp_orders[i].price,
             heap[o].tp_orders[i].size) >= 0

---------------------------------------------------------------------------
(* C26 *)

\* C26: when the entry signal fired (D > 0), the stop-loss price is
\* D * (1 + 0.0005) for a Sell and D * (1 - 0.0005) for a Buy, and lies on
\* the adverse side of the entry price: above it for a Sell, below it for a
\* Buy.
C26_StopLossAdverse ==
  (IsResult("levels") /\ last.calc.out.confirmations.entry_signal /\ last.calc.in.D > 0) =>
    LET in == last.calc.in
        out == last.calc.out
    IN IF out.confirmations.entry_direction = "SELL"
       THEN /\ 10000 * out.stop_loss = in.D * (10000 + 5)
            /\ out.stop_loss > out.confirmations.entry_price
       ELSE /\ out.confirmations.entry_direction = "BUY"
            /\ 10000 * out.stop_loss = in.D * (10000 - 5)
            /\ out.stop_loss < out.confirmations.entry_price

\* a Sell signal at 85 on the structure D = 100, C = 90: stop-loss 100.05
C26_Witness ==
  /\ IsResult("levels")
  /\ last.calc.out.confirmations.entry_signal
  /\ last.calc.out.confirmations.entry_direction = "SELL"
  /\ last.calc.in.D = 100000
  /\ last.calc.out.confirmations.entry_price = 85000
  /\ last.calc.out.stop_loss = 100050

---------------------------------------------------------------------------
(* C27 *)

\* the size of the legs of p in `legs`
LegsSize(p, legs) ==
  SeqSum([i \in 1..Len(p.tp_orders) |-> IF i \in legs THEN p.tp_orders[i].size ELSE 0])

\* the legs of p marked executed: their PnL has been realized
ExecutedLegs(p) == {i \in 1..Len(p.tp_orders) : p.tp_orders[i].executed}

\* the size over which PnL has been realized for the position of the step
\* once the step is done: the legs realized before it or in it, and the
\* exit the step reports
RealizedSize ==
  LET p == heap[last'.obj]
  IN LegsSize(p, ExecutedLegs(p) \cup last'.tp_exits) + last'.exit.size

\* C27: realized size is conserved: over the life of a position the sizes
\* over which PnL is realized (filled take-profit legs, the stop-loss exit, a
\* forced close) add up to the position size at most, and so do the sizes of
\* the recorded take-profit legs (monitor passes whose open-orders query
\* failed are left aside).
C27_SizeConserved ==
  [][((IsMonitorStep /\ last'.ok) \/ IsForceClose) =>
       LET p == heap[last'.obj]
       IN /\ RealizedSize <= p.position_size
          /\ LegsSize(p, 1..Len(p.tp_orders)) <= p.position_size]_vars

---------------------------------------------------------------------------
(* C28 *)

\* C28: at most one position is ever opened for a pattern key, over any
\* sequence of analysis cycles and daily cleanups, also after the cleanup
\* has removed the key from the cache while the pattern is still inside the
\* analysis window: no two positions of the registry come from one pattern.
C28_OnePositionPerKey ==
  \A o1, o2 \in Objs(active_positions) :
    heap[o1].pattern = heap[o2].pattern => o1 = o2

---------------------------------------------------------------------------
(* C29 *)

\* C29: for the zones of a structure (level 0.886 not zero) and a fine
\* series of at least 2 candles, the candle-close gate and the zone-break
\* gate have the same outcome, so that the score is never 1 with only one of
\* the two passed and never 2 with the trendline gate and exactly one of
\* them.
C29_GatesAgree ==
  (IsResult("levels") /\ last.calc.in.n5m >= 2 /\ last.calc.out.zones.fib_886 # 0) =>
    LET c == last.calc.out.confirmations
    IN /\ c.candle_5m_confirmation <=> c.zone_break
       /\ c.total_score = 1 => GatesPassed(c) = {"trendline"}
       /\ c.total_score = 2 => GatesPassed(c) = {"candle", "zone"}

\* two candles closing beyond level 0.886 without a trendline break: both
\* gates passed, score 2
C29_Witness ==
  /\ IsResult("levels")
  /\ last.calc.in.n5m = 2
  /\ last.calc.out.zones.fib_886 # 0
  /\ last.calc.out.confirmations.candle_5m_confirmation
  /\ last.calc.out.confirmations.zone_break
  /\ ~last.calc.out.confirmations.trendline_break
  /\ last.calc.out.confirmations.total_score = 2

---------------------------------------------------------------------------
(* C30 *)

\* the legs of p whose order is open at the venue
OpenLegs(p) == {i \in 1..Len(p.tp_orders) : p.tp_orders[i].order_id \in open_orders}

\* a monitor step whose open-orders query succeeded reports no leg whose
\* order is open as filled, and no stop-loss exit while the stop order is
\* open
C30_Step ==
  (IsMonitorStep /\ last'.ok) =>
    LET p == heap[last'.obj]
    IN /\ last'.tp_exits \cap OpenLegs(p) = {}
       /\ p.stop_order_id \in open_orders => last'.exit = NoExit

\* C30: with either venue connector the monitor never treats a bracket leg
\* as filled while its order is open at the venue: when the open-orders
\* query succeeds and lists the order of a leg, the take-profit leg is not
\* marked executed and the stop-loss does not close the position.
C30_OpenLegsNotFilled == [][C30_Step]_vars

====
